---- MODULE Spec2Model ----
(***************************************************************************)
(* dashboard_penjualan.py: one top-to-bottom run of the Streamlit script   *)
(* from the point where the selected CSV has been read (line 66), and the  *)
(* re-run of the script that every widget interaction triggers.            *)
(*                                                                         *)
(* Values                                                                  *)
(*   - numbers are integers; NaN is the missing number (and NaT the        *)
(*     missing date), a value outside every domain used;                   *)
(*   - dates are integers yyyymmdd, a month (to_period('M')) is yyyymm;    *)
(*   - a missing string cell (produk, wilayah, kategori) is NaStr;         *)
(*   - a cell of the 'total' column of the file is its text as             *)
(*     astype(str) shows it, a sequence of one-character strings, and      *)
(*     NaText when the cell is missing;                                    *)
(*   - a DataFrame is a sequence of rows (records), each row carrying its  *)
(*     pandas index label in the field "index"; DataFrame.columns is the   *)
(*     variable columns.                                                   *)
(***************************************************************************)
EXTENDS Integers, Sequences, FiniteSets, TLC

\* ------------------------------------------------------------------ bounds
\* Largest number of rows of the CSV file.
MaxRows == 2

\* ------------------------------------------------------------ missing data
NaN == -1000000
NaT == NaN
NaStr == "<NA>"
NaText == <<>>

\* The low-stock threshold of line 153 and the head(10) of line 182.
LowStock == 5
TopN == 10

\* -------------------------------------------------------- numeric helpers
\* a * b and a - b of two float cells: NaN if either is NaN.
Mul(a, b) == IF a = NaN \/ b = NaN THEN NaN ELSE a * b

Sub(a, b) == IF a = NaN \/ b = NaN THEN NaN ELSE a - b

\* Series.fillna(0)
FillNa0(a) == IF a = NaN THEN 0 ELSE a

\* a >= b and a <= b on datetimes: a comparison with NaT is False.
Ge(a, b) == a # NaT /\ b # NaT /\ a >= b

Le(a, b) == a # NaT /\ b # NaT /\ a <= b

\* ------------------------------------------------------------ text helpers
Digits == {"0", "1", "2", "3", "4", "5", "6", "7", "8", "9"}

DigitVal(c) ==
  CASE c = "0" -> 0 [] c = "1" -> 1 [] c = "2" -> 2 [] c = "3" -> 3
    [] c = "4" -> 4 [] c = "5" -> 5 [] c = "6" -> 6 [] c = "7" -> 7
    [] c = "8" -> 8 [] c = "9" -> 9

\* Series.astype(str): a missing cell becomes the text "nan".
AsStr(t) == IF t = NaText THEN <<"n", "a", "n">> ELSE t

\* StrContainsNonDigit with the pattern [^0-9.], which lets a '.' through.
StrContainsNonDigitOrDot(t) == \E i \in 1..Len(t) : t[i] \notin Digits \cup {"."}

\* str.contains(r'[^0-9]') on one cell.
StrContainsNonDigit(t) == \E i \in 1..Len(t) : t[i] \notin Digits

\* str.replace('.', '', regex=False) on one cell.
StrReplaceDot(t) == SelectSeq(t, LAMBDA c : c # ".")

RECURSIVE DecimalValue(_)
DecimalValue(t) ==
  IF t = <<>> THEN 0
  ELSE 10 * DecimalValue(SubSeq(t, 1, Len(t) - 1)) + DigitVal(t[Len(t)])

\* pd.to_numeric(text, errors='coerce') as line 75 uses it, on a text that
\* line 74 has left without any '.': the digits' value, NaN for anything else
\* ("nan" included).
ToNumeric(t) ==
  IF t # <<>> /\ \A i \in 1..Len(t) : t[i] \in Digits THEN DecimalValue(t) ELSE NaN

\* ------------------------------------------------------- DataFrame helpers
RECURSIVE SumNonNa(_, _)
\* Series.sum(): the sum of the non-missing cells of column col (0 of none).
SumNonNa(rows, col) ==
  IF rows = <<>> THEN 0
  ELSE FillNa0(Head(rows)[col]) + SumNonNa(Tail(rows), col)

CountNonNa(rows, col) == Cardinality({i \in 1..Len(rows) : rows[i][col] # NaN})

\* The group keys of groupby(key): the distinct non-missing values (dropna=True).
GroupKeys(rows, key, na) == {rows[i][key] : i \in 1..Len(rows)} \ {na}

\* groupby(key)[col].sum(min_count=mc): per key the sum of the non-missing
\* cells, NaN when fewer than mc of them are non-missing.
GroupSum(rows, key, na, col, mc) ==
  [k \in GroupKeys(rows, key, na) |->
     LET g == SelectSeq(rows, LAMBDA r : r[key] = k)
     IN  IF CountNonNa(g, col) < mc THEN NaN ELSE SumNonNa(g, col)]

RECURSIVE FirstNonNa(_, _)
FirstNonNa(rows, col) ==
  IF rows = <<>> THEN NaN
  ELSE IF Head(rows)[col] # NaN THEN Head(rows)[col]
  ELSE FirstNonNa(Tail(rows), col)

\* groupby(key)[col].first(): per key the first non-missing cell of the group
\* in row order, NaN when the group has none.
GroupFirst(rows, key, na, col) ==
  [k \in GroupKeys(rows, key, na) |->
     FirstNonNa(SelectSeq(rows, LAMBDA r : r[key] = k), col)]

RECURSIVE SortAsc(_)
\* The keys of a groupby result, which pandas returns sorted ascending.
SortAsc(S) ==
  IF S = {} THEN <<>>
  ELSE LET m == CHOOSE x \in S : \A y \in S : x <= y
       IN  <<m>> \o SortAsc(S \ {m})

\* groupby('bulan')['total'].sum().reset_index(): the (bulan, total) rows in
\* ascending key order.
ResetIndex(g) ==
  LET ks == SortAsc(DOMAIN g)
  IN  [i \in 1..Len(ks) |-> [bulan |-> ks[i], total |-> g[ks[i]]]]

\* Series.dt.to_period('M').astype(str) of a date yyyymmdd: the label yyyymm.
ToPeriodM(d) == d \div 100

Min(S) == CHOOSE x \in S : \A y \in S : x <= y

Max(S) == CHOOSE x \in S : \A y \in S : x >= y

\* ------------------------------------------------------------------- state
VARIABLES
  pc,               \* the section of the script the run is about to execute
  file,             \* the selected CSV as read_csv returns it: [columns, rows]
  columns,          \* df.columns
  df,               \* the frame named df
  tanggal_awal,     \* the date range picked in the sidebar
  tanggal_akhir,
  wilayah,          \* the multiselect selections
  kategori,
  df_filter,        \* the frame named df_filter
  total_penjualan,  \* the KPI values
  total_transaksi,
  produk_terlaris,
  stok_df,          \* produk -> [Stok Awal, Terjual, Sisa Stok]
  stok_menipis,
  penjualan_bulanan,
  kategori_chart,
  wilayah_chart,
  top_produk,
  excel,            \* the frame written to the Excel buffer
  pdf,              \* the frame handed to df_to_pdf
  fanta,            \* the debug frame of line 219
  rendered,         \* the sections this run has put on the page
  halt,             \* how the run ended: "" while running or complete
  prev_stok         \* the stock table the previous run of the script rendered

vars ==
  <<pc, file, columns, df, tanggal_awal, tanggal_akhir, wilayah, kategori,
    df_filter, total_penjualan, total_transaksi, produk_terlaris, stok_df,
    stok_menipis, penjualan_bulanan, kategori_chart, wilayah_chart, top_produk,
    excel, pdf, fanta, rendered, halt, prev_stok>>

inputs == <<tanggal_awal, tanggal_akhir, wilayah, kategori>>

kpis == <<total_penjualan, total_transaksi, produk_terlaris>>

stok == <<stok_df, stok_menipis>>

charts == <<penjualan_bulanan, kategori_chart, wilayah_chart>>

exports == <<excel, pdf, fanta>>

NoTable == [k \in {} |-> 0]

\* The values of a run that has not started: the top of the script.
Fresh ==
  /\ pc = "load"
  /\ columns = {}
  /\ df = <<>>
  /\ tanggal_awal = NaT
  /\ tanggal_akhir = NaT
  /\ wilayah = {}
  /\ kategori = {}
  /\ df_filter = <<>>
  /\ total_penjualan = 0
  /\ total_transaksi = 0
  /\ produk_terlaris = NaStr
  /\ stok_df = NoTable
  /\ stok_menipis = NoTable
  /\ penjualan_bulanan = <<>>
  /\ kategori_chart = NoTable
  /\ wilayah_chart = NoTable
  /\ top_produk = <<>>
  /\ excel = <<>>
  /\ pdf = <<>>
  /\ fanta = <<>>
  /\ rendered = {}
  /\ halt = ""

\* Back to the top of the script: every name of the run is unbound again.
Restart ==
  /\ pc' = "load"
  /\ columns' = {}
  /\ df' = <<>>
  /\ tanggal_awal' = NaT
  /\ tanggal_akhir' = NaT
  /\ wilayah' = {}
  /\ kategori' = {}
  /\ df_filter' = <<>>
  /\ total_penjualan' = 0
  /\ total_transaksi' = 0
  /\ produk_terlaris' = NaStr
  /\ stok_df' = NoTable
  /\ stok_menipis' = NoTable
  /\ penjualan_bulanan' = <<>>
  /\ kategori_chart' = NoTable
  /\ wilayah_chart' = NoTable
  /\ top_produk' = <<>>
  /\ excel' = <<>>
  /\ pdf' = <<>>
  /\ fanta' = <<>>
  /\ rendered' = {}
  /\ halt' = ""

\* An uncaught exception (KeyError, IndexError, ValueError) ends the run.
Raise ==
  /\ pc' = "end"
  /\ halt' = "exception"

\* ------------------------------------------------------------- LOAD DATA
\* Line 71: the condition under which 'total' is recomputed.
Recompute(f) ==
  \/ "total" \notin f.columns
  \/ \E i \in 1..Len(f.rows) :
       /\ f.rows[i].total # NaText
       /\ StrContainsNonDigit(AsStr(f.rows[i].total))

\* Lines 74-75 on one cell.
CleanTotal(t) == ToNumeric(StrReplaceDot(AsStr(t)))

\* Lines 66-75: the frame after the type coercions and the total derivation.
Normalize(f) ==
  [i \in 1..Len(f.rows) |->
     [f.rows[i] EXCEPT !.total =
        IF Recompute(f) THEN Mul(f.rows[i].qty, f.rows[i].harga)
        ELSE CleanTotal(f.rows[i].total)]]

LoadData ==
  /\ pc = "load"
  /\ IF {"tanggal", "qty", "harga"} \subseteq file.columns
     THEN /\ df' = Normalize(file)
          /\ columns' = file.columns \cup {"total"}
          /\ pc' = "filter_tanggal"
          /\ halt' = halt
     ELSE /\ df' = file.rows
          /\ columns' = file.columns
          /\ Raise
  /\ UNCHANGED <<file, inputs, df_filter, kpis, stok, charts, top_produk,
                 exports, rendered, prev_stok>>

\* --------------------------------------------------------- FILTER TANGGAL
\* The days the date picker of line 81 can return.
Calendar == {20240105, 20240120, 20240201}

ValidDates(rows) == {rows[i].tanggal : i \in 1..Len(rows)} \ {NaT}

\* InRange with the end of the range excluded.
InRangeEndExclusive(d, a, b) == Ge(d, a) /\ b # NaT /\ d < b

\* Line 89: the mask of the date filter on one row's date.
InRange(d, a, b) == Ge(d, a) /\ Le(d, b)

\* Lines 89-91: the date mask, dropna(subset=['tanggal']) and the month label.
FilterDate(rows, a, b) ==
  LET kept == SelectSeq(rows, LAMBDA r : InRange(r.tanggal, a, b))
      some == SelectSeq(kept, LAMBDA r : r.tanggal # NaT)
  IN  [i \in 1..Len(some) |->
         [c \in DOMAIN some[i] \cup {"bulan"} |->
            IF c = "bulan" THEN ToPeriodM(some[i].tanggal) ELSE some[i][c]]]

\* Lines 78-91. The picker is bounded by min_date and max_date and returns a
\* range tanggal_awal <= tanggal_akhir.
FilterTanggal ==
  /\ pc = "filter_tanggal"
  /\ ValidDates(df) # {}
  /\ \E a \in Calendar, b \in Calendar :
       /\ Min(ValidDates(df)) <= a
       /\ a <= b
       /\ b <= Max(ValidDates(df))
       /\ tanggal_awal' = a
       /\ tanggal_akhir' = b
       /\ df' = FilterDate(df, a, b)
  /\ columns' = columns \cup {"bulan"}
  /\ pc' = "filter_data"
  /\ UNCHANGED <<file, wilayah, kategori, df_filter, kpis, stok, charts,
                 top_produk, exports, rendered, halt, prev_stok>>

\* ------------------------------------------------------------ FILTER DATA
\* Lines 94 and 96: df[col].dropna().unique().tolist()
Options(rows, col) == {rows[i][col] : i \in 1..Len(rows)} \ {NaStr}

\* Isin with a missing cell passing the membership test.
IsinOrNa(v, S) == v \in S \/ v = NaStr

\* Series.isin(values) on one cell.
Isin(v, S) == v \in S

\* Lines 99-104: the two membership masks, then total -> to_numeric.fillna(0).
FilterRows(rows, w, k) ==
  LET kept == SelectSeq(rows, LAMBDA r : Isin(r.wilayah, w) /\ Isin(r.kategori, k))
  IN  [i \in 1..Len(kept) |-> [kept[i] EXCEPT !.total = FillNa0(@)]]

\* Lines 93-108. A multiselect returns a subset of its options.
FilterData ==
  /\ pc = "filter_data"
  /\ IF {"wilayah", "kategori"} \subseteq columns
     THEN \E w \in SUBSET Options(df, "wilayah"), k \in SUBSET Options(df, "kategori") :
            /\ wilayah' = w
            /\ kategori' = k
            /\ df_filter' = FilterRows(df, w, k)
            /\ IF FilterRows(df, w, k) = <<>>
               THEN pc' = "end" /\ halt' = "no_data"
               ELSE pc' = "kpi" /\ halt' = halt
     ELSE /\ UNCHANGED <<wilayah, kategori, df_filter>>
          /\ Raise
  /\ UNCHANGED <<file, columns, df, tanggal_awal, tanggal_akhir, kpis, stok,
                 charts, top_produk, exports, rendered, prev_stok>>

\* -------------------------------------------------------------------- KPI
\* groupby('produk')['total'].sum() of a frame.
TotalPerProduk(rows) == GroupSum(rows, "produk", NaStr, "total", 0)

\* sort_values(ascending=False).head(1).index[0]: a product of the largest
\* sum; which one among equal sums is the sort's choice.
Terlaris(g) == {p \in DOMAIN g : \A q \in DOMAIN g : g[q] <= g[p]}

\* Lines 110-122.
KPI ==
  /\ pc = "kpi"
  /\ IF "produk" \in columns /\ GroupKeys(df_filter, "produk", NaStr) # {}
     THEN /\ total_penjualan' = SumNonNa(df_filter, "total")
          /\ total_transaksi' = Len(df_filter)
          /\ produk_terlaris' \in Terlaris(TotalPerProduk(df_filter))
          /\ rendered' = rendered \cup {"kpi"}
          /\ pc' = "sisa_stok"
          /\ halt' = halt
     ELSE /\ UNCHANGED <<kpis, rendered>>
          /\ Raise
  /\ UNCHANGED <<file, columns, df, inputs, df_filter, stok, charts,
                 top_produk, exports, prev_stok>>

\* -------------------------------------------------------------- SISA STOK
required_cols == {"produk", "qty", "stok_awal"}

\* Line 136.
Terjual(rows) == GroupSum(rows, "produk", NaStr, "qty", 1)

\* Line 137.
StokAwal(rows) == GroupFirst(rows, "produk", NaStr, "stok_awal")

\* Lines 136-147: the three columns, NaN filled with 0, as integers.
StokDf(rows) ==
  [p \in GroupKeys(rows, "produk", NaStr) |->
     [StokAwal |-> FillNa0(StokAwal(rows)[p]),
      Terjual  |-> FillNa0(Terjual(rows)[p]),
      SisaStok |-> FillNa0(Sub(StokAwal(rows)[p], Terjual(rows)[p]))]]

\* Line 153.
StokMenipis(t) ==
  [p \in {q \in DOMAIN t : t[q].SisaStok <= LowStock} |-> t[p]]

\* Lines 126-156.
SisaStok ==
  /\ pc = "sisa_stok"
  /\ IF required_cols \subseteq columns
     THEN /\ stok_df' = StokDf(df)
          /\ stok_menipis' = StokMenipis(StokDf(df))
          /\ rendered' = rendered \cup {"stok"}
          /\ pc' = "grafik"
          /\ halt' = halt
     ELSE /\ UNCHANGED <<stok, rendered>>
          /\ pc' = "end"
          /\ halt' = "config_error"
  /\ UNCHANGED <<file, columns, df, inputs, df_filter, kpis, charts,
                 top_produk, exports, prev_stok>>

\* ----------------------------------------------------------------- GRAFIK
\* Line 160.
PenjualanBulanan(rows) == ResetIndex(GroupSum(rows, "bulan", NaN, "total", 0))

\* Lines 164 and 168: the sums per category and per region.
TotalPer(rows, key) == GroupSum(rows, key, NaStr, "total", 0)

\* Lines 159-170.
Grafik ==
  /\ pc = "grafik"
  /\ penjualan_bulanan' = PenjualanBulanan(df_filter)
  /\ kategori_chart' = TotalPer(df_filter, "kategori")
  /\ wilayah_chart' = TotalPer(df_filter, "wilayah")
  /\ rendered' = rendered \cup {"grafik"}
  /\ pc' = "top_produk"
  /\ UNCHANGED <<file, columns, df, inputs, df_filter, kpis, stok, top_produk,
                 exports, halt, prev_stok>>

\* ---------------------------------------------------------- TOP 10 PRODUK
\* sort_values(ascending=False).head(10).reset_index(): every order of the
\* products by descending sum that the sort can produce, cut to 10 rows.
TopSeqs(g) ==
  LET n == IF Cardinality(DOMAIN g) < TopN THEN Cardinality(DOMAIN g) ELSE TopN
  IN  {s \in [1..n -> DOMAIN g] :
         /\ \A i, j \in 1..n : i < j => s[i] # s[j] /\ g[s[i]] >= g[s[j]]
         /\ \A q \in DOMAIN g \ {s[i] : i \in 1..n} : \A i \in 1..n : g[s[i]] >= g[q]}

\* Lines 172-194. Line 174 drops nothing: line 104 left no missing total.
TopProduk ==
  /\ pc = "top_produk"
  /\ \E s \in TopSeqs(TotalPerProduk(df_filter)) :
       top_produk' =
         [i \in 1..Len(s) |->
            [produk |-> s[i], total |-> TotalPerProduk(df_filter)[s[i]]]]
  /\ rendered' = rendered \cup {"top"}
  /\ pc' = "download"
  /\ UNCHANGED <<file, columns, df, inputs, df_filter, kpis, stok, charts,
                 exports, halt, prev_stok>>

\* --------------------------------------------------------------- DOWNLOAD
\* The product names that contain "Fanta Stroberi 500ml", case ignored.
FantaNames == {"Fanta Stroberi 500ml"}

\* Lines 196-220. The Excel buffer takes df_filter; a click on the PDF button
\* hands df to df_to_pdf; the debug mask of line 219 raises ValueError when a
\* produk cell is missing.
Download ==
  /\ pc = "download"
  /\ excel' = df_filter
  /\ \E click \in BOOLEAN :
       IF click
       THEN pdf' = df /\ rendered' = rendered \cup {"excel", "pdf"}
       ELSE pdf' = pdf /\ rendered' = rendered \cup {"excel"}
  /\ IF \E i \in 1..Len(df) : df[i].produk = NaStr
     THEN fanta' = fanta /\ halt' = "exception"
     ELSE fanta' = SelectSeq(df, LAMBDA r : r.produk \in FantaNames) /\ halt' = halt
  /\ pc' = "end"
  /\ UNCHANGED <<file, columns, df, inputs, df_filter, kpis, stok, charts,
                 top_produk, prev_stok>>

\* ------------------------------------------------------------------ RERUN
\* A widget interaction runs the script again from the top over the same file.
Rerun ==
  /\ pc = "end"
  /\ Restart
  /\ prev_stok' = IF "stok" \in rendered THEN {stok_df} ELSE prev_stok
  /\ UNCHANGED file

Next ==
  \/ LoadData
  \/ FilterTanggal
  \/ FilterData
  \/ KPI
  \/ SisaStok
  \/ Grafik
  \/ TopProduk
  \/ Download
  \/ Rerun

\* ------------------------------------------------------------------ files
AllColumns == {"tanggal", "produk", "wilayah", "kategori", "qty", "harga", "stok_awal"}

\* The frames read_csv can return from cells drawn from D, with the RangeIndex.
Frames(D) ==
  UNION {[1..n -> D] : n \in 1..MaxRows}

WithIndex(rows) ==
  [i \in 1..Len(rows) |->
     [c \in DOMAIN rows[i] \cup {"index"} |->
        IF c = "index" THEN i - 1 ELSE rows[i][c]]]

\* Files for the stock reconciliation: products, dates, quantities and stocks vary.
StockCells ==
  [tanggal : {20240105, 20240201}, produk : {"Widget", "Gadget"},
   wilayah : {"West"}, kategori : {"Toys"}, qty : {2, NaN}, harga : {1000},
   stok_awal : {100, 999}, total : {NaText}]

StockFiles ==
  {[columns |-> AllColumns, rows |-> WithIndex(r)] : r \in Frames(StockCells)}

\* Files for the total derivation: the file's total text, quantity and price vary.
TotalTexts == {NaText, <<"1", "5", "0", "0">>, <<"1", ".", "5", "0", "0">>}

RevenueCells ==
  [tanggal : {20240105}, produk : {"Widget"}, wilayah : {"West"},
   kategori : {"Toys"}, qty : {3, NaN}, harga : {1500, NaN}, stok_awal : {50},
   total : TotalTexts]

RevenueFiles ==
  {[columns |-> AllColumns \cup {"total"}, rows |-> WithIndex(r)] :
     r \in Frames(RevenueCells)}
  \cup
  {[columns |-> AllColumns, rows |-> WithIndex(r)] :
     r \in {q \in Frames(RevenueCells) : \A i \in 1..Len(q) : q[i].total = NaText}}

\* Files for the filters: dates, regions and categories vary, missing included.
FilterCells ==
  [tanggal : {20240105, 20240201, NaT}, produk : {"Widget"},
   wilayah : {"West", "East", NaStr}, kategori : {"Toys", NaStr}, qty : {2},
   harga : {1000}, stok_awal : {50}, total : {NaText}]

FilterFiles ==
  {[columns |-> AllColumns, rows |-> WithIndex(r)] :
     r \in {q \in Frames(FilterCells) : ValidDates(q) # {}}}

\* Files for the column checks: any set of columns may be absent.
ColumnCells ==
  [tanggal : {20240105, 20240201}, produk : {"Fanta Stroberi 500ml", NaStr},
   wilayah : {"West"}, kategori : {"Toys"}, qty : {2}, harga : {1000},
   stok_awal : {50}, total : {<<"7">>}]

Missing(c) ==
  CASE c \in {"tanggal", "qty", "harga", "stok_awal"} -> NaN
    [] c \in {"produk", "wilayah", "kategori"} -> NaStr
    [] c = "total" -> NaText

\* The rows of a file that lacks the columns outside cols.
Without(rows, cols) ==
  [i \in 1..Len(rows) |->
     [c \in DOMAIN rows[i] |-> IF c \in cols THEN rows[i][c] ELSE Missing(c)]]

ColumnFiles ==
  {[columns |-> cols, rows |-> WithIndex(Without(r, cols))] :
     cols \in SUBSET (AllColumns \cup {"total"}), r \in Frames(ColumnCells)}

InitOf(files) ==
  /\ file \in files
  /\ Fresh
  /\ prev_stok = {}

InitStock == InitOf(StockFiles)

InitRevenue == InitOf(RevenueFiles)

InitFilter == InitOf(FilterFiles)

InitColumns == InitOf(ColumnFiles)

SpecStock == InitStock /\ [][Next]_vars

SpecRevenue == InitRevenue /\ [][Next]_vars

SpecFilter == InitFilter /\ [][Next]_vars

SpecColumns == InitColumns /\ [][Next]_vars

\* ----------------------------------------------------------------- claims
RECURSIVE SumOfGroups(_)
SumOfGroups(g) ==
  IF DOMAIN g = {} THEN 0
  ELSE LET k == CHOOSE x \in DOMAIN g : TRUE
       IN  g[k] + SumOfGroups([x \in DOMAIN g \ {k} |-> g[x]])

RECURSIVE SumOfSeries(_)
SumOfSeries(s) == IF s = <<>> THEN 0 ELSE Head(s).total + SumOfSeries(Tail(s))

\* C1: two runs of the script over the same file that both render the stock
\* table render the same table, whatever date range, regions and categories
\* each run picked.
C1_StockSameUnderAnyFilter ==
  "stok" \in rendered => \A t \in prev_stok : t = stok_df

\* C2: a run whose filters match no row ends in the "no data" state without
\* KPIs, and has still rendered the stock table.
C2_NoDataStillRendersStock ==
  (pc = "end" /\ halt = "no_data") => ("kpi" \notin rendered /\ "stok" \in rendered)

\* The rows of product p in the frame the stock step reads.
RowsOf(rows, p) == SelectSeq(rows, LAMBDA r : r.produk = p)

\* C3: for every product of the stock table, sold is the sum of its
\* non-missing quantities (0 when it has none) and
\* remaining_stock = initial_stock - sold.
C3_RemainingIsInitialMinusSold ==
  "stok" \in rendered =>
    \A p \in DOMAIN stok_df :
      /\ stok_df[p].Terjual = SumNonNa(RowsOf(df, p), "qty")
      /\ stok_df[p].SisaStok = stok_df[p].StokAwal - stok_df[p].Terjual

\* The file has a total column whose present cells are digits only.
CleanTotalColumn ==
  /\ "total" \in file.columns
  /\ \A i \in 1..Len(file.rows) : \A j \in 1..Len(file.rows[i].total) :
       file.rows[i].total[j] \in Digits

\* C4: right after the load, with no total column or with a present total
\* cell holding a non-digit, every row's total is qty * harga; otherwise
\* every row's total is its own text with each '.' removed, read as a number
\* (missing where the cell is missing).
C4_TotalDerivation ==
  pc = "filter_tanggal" =>
    /\ Len(df) = Len(file.rows)
    /\ \A i \in 1..Len(df) :
         LET r == file.rows[i]
         IN  df[i].total =
               IF ~CleanTotalColumn
               THEN (IF r.qty = NaN \/ r.harga = NaN THEN NaN ELSE r.qty * r.harga)
               ELSE (IF r.total = NaText THEN NaN
                     ELSE DecimalValue(SelectSeq(r.total, LAMBDA c : c # ".")))

\* C4 witness: a clean total column was kept, a cell 1500 in a row of
\* qty 3 and harga 1500.
C4_Witness ==
  /\ pc = "filter_tanggal"
  /\ CleanTotalColumn
  /\ \E i \in 1..Len(df) :
       /\ file.rows[i].total = <<"1", "5", "0", "0">>
       /\ df[i].total = 1500
       /\ file.rows[i].qty = 3
       /\ file.rows[i].harga = 1500

\* C5: right after the load, a row whose total cell reads "1.500" (its qty
\* and harga present) has the total 1500, not qty * harga.
C5_ThousandsStrip ==
  pc = "filter_tanggal" =>
    \A i \in 1..Len(df) :
      (/\ file.rows[i].total = <<"1", ".", "5", "0", "0">>
       /\ file.rows[i].qty # NaN
       /\ file.rows[i].harga # NaN)
        => df[i].total = 1500

\* C6: once the file is loaded, no row of df, of df_filter or of an exported
\* frame has a missing total.
C6_TotalNeverMissing ==
  (pc # "load" /\ {"tanggal", "qty", "harga"} \subseteq file.columns) =>
    /\ \A i \in 1..Len(df) : df[i].total # NaN
    /\ \A i \in 1..Len(df_filter) : df_filter[i].total # NaN
    /\ \A i \in 1..Len(excel) : excel[i].total # NaN
    /\ \A i \in 1..Len(pdf) : pdf[i].total # NaN

\* C7: for every product of the stock table, its initial stock is the
\* stok_awal of the product's first row in the file.
C7_InitialStockIsFirstRowOfFile ==
  "stok" \in rendered =>
    \A p \in DOMAIN stok_df :
      stok_df[p].StokAwal = RowsOf(file.rows, p)[1].stok_awal

\* The filter step has just run.
Filtered == pc = "kpi" \/ (pc = "end" /\ halt = "no_data")

\* The rows of the file that the picked range and selections let through.
Passing ==
  {i \in 1..Len(file.rows) :
     /\ file.rows[i].tanggal # NaT
     /\ tanggal_awal <= file.rows[i].tanggal
     /\ file.rows[i].tanggal <= tanggal_akhir
     /\ file.rows[i].wilayah \in wilayah
     /\ file.rows[i].kategori \in kategori}

\* C8: after the filter step, df_filter holds exactly the rows whose date is
\* in [tanggal_awal, tanggal_akhir], both ends included, whose region is
\* selected and whose category is selected, each once and in file order.
C8_FilterIff ==
  Filtered =>
    /\ {df_filter[i].index : i \in 1..Len(df_filter)} =
         {file.rows[i].index : i \in Passing}
    /\ Len(df_filter) = Cardinality(Passing)
    /\ \A i, j \in 1..Len(df_filter) :
         i < j => df_filter[i].index < df_filter[j].index

\* C8 witness: a row dated on the last day of a range of several days passed,
\* and a row of an unselected region was left out.
C8_Witness ==
  /\ pc = "kpi"
  /\ tanggal_awal < tanggal_akhir
  /\ \E i \in 1..Len(df_filter) : df_filter[i].tanggal = tanggal_akhir
  /\ \E i \in 1..Len(file.rows) :
       /\ file.rows[i].wilayah \notin wilayah
       /\ file.rows[i].wilayah # NaStr
       /\ file.rows[i].tanggal # NaT

\* C9: a run over a file that lacks produk, qty, stok_awal or tanggal, and
\* that does not stop on "no data" first, ends in an error stop with nothing
\* rendered.
C9_MissingColumnStopsBeforeOutput ==
  (/\ pc = "end"
   /\ ~({"produk", "qty", "stok_awal", "tanggal"} \subseteq file.columns)
   /\ halt # "no_data")
    => (halt \in {"config_error", "exception"} /\ rendered = {})

\* C10: once the charts are rendered, the KPI total equals the sum of the
\* monthly series, of the category sums and of the region sums, and the
\* monthly series is in ascending month order.
C10_AggregatesAgree ==
  "grafik" \in rendered =>
    /\ total_penjualan = SumOfSeries(penjualan_bulanan)
    /\ total_penjualan = SumOfGroups(kategori_chart)
    /\ total_penjualan = SumOfGroups(wilayah_chart)
    /\ \A i, j \in 1..Len(penjualan_bulanan) :
         i < j => penjualan_bulanan[i].bulan < penjualan_bulanan[j].bulan

\* C10 witness: charts over two months and two regions.
C10_Witness ==
  /\ "grafik" \in rendered
  /\ Len(penjualan_bulanan) = 2
  /\ Cardinality(DOMAIN wilayah_chart) = 2
  /\ total_penjualan > 0

====
